---------------------------- MODULE Spec2Model ----------------------------
(***************************************************************************)
(* A model of langchain_community/utilities/anysdk.py: the CRUD policy     *)
(* (CrudControls), the tool wrapper (AnySDKTool) and the catalog           *)
(* (AnySdkWrapper).                                                        *)
(*                                                                         *)
(* Python strings are sequences of one-character strings, so that lower(), *)
(* split(","), substring tests, json.loads and json.dumps are computed.    *)
(* Every Python value is a record [t, s, items]: t its type, s its text    *)
(* (a str's characters, an int's digits, a bool's str()), items the        *)
(* entries of a list (k empty) or of a dict (k the key).                   *)
(***************************************************************************)
EXTENDS Naturals, Sequences, FiniteSets

VARIABLES
    env,            \* os.environ: variable name -> [set, v]
    config,         \* the keyword arguments given to CrudControls(...)
    crud_controls,  \* AnySdkWrapper.crud_controls: PyNone or a CrudControls
    client,         \* the attributes of client["client"], as places of ClientAttrs
    pc,             \* the catalog: "new", "built", "raised" (__init__ raised);
                    \* the policy: "config", "policy", "invalid" (ValidationError)
    operations,     \* AnySdkWrapper.operations
    built,          \* what _build_operations returned in __init__
    tools,          \* what the last get_tools() returned
    run,            \* the last AnySDKTool._run: its tool, input, calls, outcome
    changes         \* attributes added to or removed from the client since __init__

vars == <<env, config, crud_controls, client, pc, operations, built, tools, run, changes>>

----------------------------------------------------------------------------
(* Python values *)

PyNone == [t |-> "None", s |-> <<>>, items |-> <<>>]

PyBool(b) ==
    [t |-> "bool",
     s |-> IF b THEN <<"T","r","u","e">> ELSE <<"F","a","l","s","e">>,
     items |-> <<>>]

PyStr(chars) == [t |-> "str", s |-> chars, items |-> <<>>]

PyInt(digits) == [t |-> "int", s |-> digits, items |-> <<>>]

PyList(vals) ==
    [t |-> "list", s |-> <<>>,
     items |-> [i \in 1..Len(vals) |-> [k |-> <<>>, v |-> vals[i]]]]

PyDict(entries) == [t |-> "dict", s |-> <<>>, items |-> entries]

\* an instance of a class json does not know; s is what str() gives
PyObject(repr) == [t |-> "object", s |-> repr, items |-> <<>>]

\* an instance whose __str__ raises AttributeError
PyBadStr == [t |-> "badstr", s |-> <<>>, items |-> <<>>]

\* bool(x), Python's truth value
bool(x) ==
    CASE x.t = "None" -> FALSE
      [] x.t = "bool" -> x.s = <<"T","r","u","e">>
      [] x.t = "str" -> Len(x.s) > 0
      [] x.t = "int" -> x.s # <<"0">>
      [] x.t = "list" -> Len(x.items) > 0
      [] x.t = "dict" -> Len(x.items) > 0
      [] OTHER -> TRUE

\* str.lower() of one character
LowerChar(c) ==
    CASE c = "A" -> "a" [] c = "B" -> "b" [] c = "C" -> "c" [] c = "D" -> "d"
      [] c = "E" -> "e" [] c = "F" -> "f" [] c = "G" -> "g" [] c = "H" -> "h"
      [] c = "I" -> "i" [] c = "J" -> "j" [] c = "K" -> "k" [] c = "L" -> "l"
      [] c = "M" -> "m" [] c = "N" -> "n" [] c = "O" -> "o" [] c = "P" -> "p"
      [] c = "Q" -> "q" [] c = "R" -> "r" [] c = "S" -> "s" [] c = "T" -> "t"
      [] c = "U" -> "u" [] c = "V" -> "v" [] c = "W" -> "w" [] c = "X" -> "x"
      [] c = "Y" -> "y" [] c = "Z" -> "z" [] OTHER -> c

\* str.lower()
lower(chars) == [i \in 1..Len(chars) |-> LowerChar(chars[i])]

\* Python's  word in text  for strings: word is a substring of text
in(word, text) ==
    \E i \in 0..Len(text) :
        /\ i + Len(word) <= Len(text)
        /\ SubSeq(text, i + 1, i + Len(word)) = word

\* str.startswith
startswith(text, prefix) ==
    /\ Len(prefix) <= Len(text)
    /\ SubSeq(text, 1, Len(prefix)) = prefix

\* the position of the first "," of chars, 0 when it has none
FirstComma(chars) ==
    IF \E i \in 1..Len(chars) : chars[i] = ","
    THEN CHOOSE i \in 1..Len(chars) :
            /\ chars[i] = ","
            /\ \A j \in 1..(i - 1) : chars[j] # ","
    ELSE 0

RECURSIVE split(_)
\* str.split(","): the pieces between the commas, one piece when there is none
split(chars) ==
    LET i == FirstComma(chars)
    IN  IF i = 0
        THEN <<chars>>
        ELSE <<SubSeq(chars, 1, i - 1)>> \o split(SubSeq(chars, i + 1, Len(chars)))

----------------------------------------------------------------------------
(* CrudControls *)

ANYSDK_CRUD_CONTROLS_CREATE == PyBool(FALSE)
ANYSDK_CRUD_CONTROLS_READ == PyBool(TRUE)
ANYSDK_CRUD_CONTROLS_UPDATE == PyBool(FALSE)
ANYSDK_CRUD_CONTROLS_DELETE == PyBool(FALSE)

ANYSDK_CRUD_CONTROLS_CREATE_LIST == PyStr(<<"c","r","e","a","t","e">>)
ANYSDK_CRUD_CONTROLS_READ_LIST ==
    PyStr(<<"g","e","t",",","r","e","a","d",",","l","i","s","t">>)
ANYSDK_CRUD_CONTROLS_UPDATE_LIST ==
    PyStr(<<"u","p","d","a","t","e",",","p","u","t",",","p","o","s","t">>)
ANYSDK_CRUD_CONTROLS_DELETE_LIST ==
    PyStr(<<"d","e","l","e","t","e",",","d","e","s","t","r","o","y",",",
            "r","e","m","o","v","e">>)

Gates == {"create", "read", "update", "delete"}
Lists == {"create_list", "read_list", "update_list", "delete_list"}
Fields == Gates \cup Lists

\* the name of the environment variable of a field
EnvKey(field) ==
    CASE field = "create" -> "ANYSDK_CRUD_CONTROLS_CREATE"
      [] field = "create_list" -> "ANYSDK_CRUD_CONTROLS_CREATE_LIST"
      [] field = "read" -> "ANYSDK_CRUD_CONTROLS_READ"
      [] field = "read_list" -> "ANYSDK_CRUD_CONTROLS_READ_LIST"
      [] field = "update" -> "ANYSDK_CRUD_CONTROLS_UPDATE"
      [] field = "update_list" -> "ANYSDK_CRUD_CONTROLS_UPDATE_LIST"
      [] field = "delete" -> "ANYSDK_CRUD_CONTROLS_DELETE"
      [] field = "delete_list" -> "ANYSDK_CRUD_CONTROLS_DELETE_LIST"

EnvKeys == {EnvKey(f) : f \in Fields}

\* the class-level default of a field (used when the caller does not give it)
FieldDefault(field) ==
    CASE field = "create" -> ANYSDK_CRUD_CONTROLS_CREATE
      [] field = "read" -> ANYSDK_CRUD_CONTROLS_READ
      [] field = "update" -> ANYSDK_CRUD_CONTROLS_UPDATE
      [] field = "delete" -> ANYSDK_CRUD_CONTROLS_DELETE
      [] OTHER -> PyNone

\* whether a given value passes the field type Optional[str]
StrValid(x) == x.t \in {"None", "str", "bool", "int"}

\* the field type Optional[str] applied to a given value: None stays None, a
\* str stays, a number (a bool is one) becomes its str()
StrCoerce(x) == IF x.t \in {"bool", "int"} THEN PyStr(x.s) ELSE x

\* the values the root validator receives: each field as given and coerced,
\* or its class default when the caller does not give it
FieldValues(cfg) ==
    [f \in Fields |->
        IF f \in DOMAIN cfg THEN StrCoerce(cfg[f]) ELSE FieldDefault(f)]

\* langchain_core.utils.get_from_env: the variable when it is set and not
\* empty, otherwise the default
get_from_env(environ, env_key, default) ==
    IF environ[env_key].set /\ Len(environ[env_key].v) > 0
    THEN PyStr(environ[env_key].v)
    ELSE default

\* langchain_core.utils.get_from_dict_or_env: the entry of the dictionary when
\* it is there and true, otherwise the environment, otherwise the default
get_from_dict_or_env(environ, data, key, env_key, default) ==
    IF key \in DOMAIN data /\ bool(data[key])
    THEN data[key]
    ELSE get_from_env(environ, env_key, default)

\* CrudControls.validate_environment
validate_environment(environ, values) ==
    LET create == get_from_dict_or_env(environ, values, "create",
                      "ANYSDK_CRUD_CONTROLS_CREATE", ANYSDK_CRUD_CONTROLS_CREATE)
        create_list == get_from_dict_or_env(environ, values, "create_list",
                      "ANYSDK_CRUD_CONTROLS_CREATE_LIST", ANYSDK_CRUD_CONTROLS_CREATE_LIST)
        read == get_from_dict_or_env(environ, values, "read",
                      "ANYSDK_CRUD_CONTROLS_READ", ANYSDK_CRUD_CONTROLS_READ)
        read_list == get_from_dict_or_env(environ, values, "read_list",
                      "ANYSDK_CRUD_CONTROLS_READ_LIST", ANYSDK_CRUD_CONTROLS_READ_LIST)
        update == get_from_dict_or_env(environ, values, "update",
                      "ANYSDK_CRUD_CONTROLS_UPDATE", ANYSDK_CRUD_CONTROLS_UPDATE)
        update_list == get_from_dict_or_env(environ, values, "update_list",
                      "ANYSDK_CRUD_CONTROLS_UPDATE_LIST", ANYSDK_CRUD_CONTROLS_UPDATE_LIST)
        delete == get_from_dict_or_env(environ, values, "delete",
                      "ANYSDK_CRUD_CONTROLS_DELETE", ANYSDK_CRUD_CONTROLS_DELETE)
        delete_list == get_from_dict_or_env(environ, values, "delete_list",
                      "ANYSDK_CRUD_CONTROLS_DELETE_LIST", ANYSDK_CRUD_CONTROLS_DELETE_LIST)
    IN  [create |-> PyBool(bool(create)),
         create_list |-> PyList([i \in 1..Len(split(create_list.s)) |->
                                    PyStr(split(create_list.s)[i])]),
         read |-> PyBool(bool(read)),
         read_list |-> PyList([i \in 1..Len(split(read_list.s)) |->
                                    PyStr(split(read_list.s)[i])]),
         update |-> PyBool(bool(update)),
         update_list |-> PyList([i \in 1..Len(split(update_list.s)) |->
                                    PyStr(split(update_list.s)[i])]),
         delete |-> PyBool(bool(delete)),
         delete_list |-> PyList([i \in 1..Len(split(delete_list.s)) |->
                                    PyStr(split(delete_list.s)[i])])]

\* the marker of a constructor that raised pydantic's ValidationError
ValidationError == [t |-> "ValidationError", s |-> <<>>, items |-> <<>>]

\* CrudControls(**cfg) under the environment: the validated policy, or
\* ValidationError when a given value is not an Optional[str]
CrudControls(environ, cfg) ==
    IF \A f \in DOMAIN cfg : StrValid(cfg[f])
    THEN validate_environment(environ, FieldValues(cfg))
    ELSE ValidationError

----------------------------------------------------------------------------
(* json.loads and json.dumps, for JSON without escapes, fractions or       *)
(* exponents: objects, arrays, strings, integers, null, true, false.       *)

Digits == {"0", "1", "2", "3", "4", "5", "6", "7", "8", "9"}

\* the decoder's answer when the text is not JSON (JSONDecodeError)
NoParse == [ok |-> FALSE, v |-> PyNone, i |-> 0]

RECURSIVE SkipWs(_, _)
\* the first position from i on that holds no whitespace
SkipWs(text, i) ==
    IF i <= Len(text) /\ text[i] = " " THEN SkipWs(text, i + 1) ELSE i

RECURSIVE EndOfDigits(_, _)
\* the first position from i on that holds no digit
EndOfDigits(text, i) ==
    IF i <= Len(text) /\ text[i] \in Digits THEN EndOfDigits(text, i + 1) ELSE i

RECURSIVE EndOfString(_, _)
\* the position of the closing quote of a string whose characters start at i,
\* 0 when the string is not closed
EndOfString(text, i) ==
    IF i > Len(text) THEN 0
    ELSE IF text[i] = "\"" THEN i
    ELSE EndOfString(text, i + 1)

\* a string literal at i: [ok, v, i] with i the position after it
ParseString(text, i) ==
    LET e == EndOfString(text, i + 1)
    IN  IF e = 0 THEN NoParse
        ELSE [ok |-> TRUE, v |-> PyStr(SubSeq(text, i + 1, e - 1)), i |-> e + 1]

\* an integer at i: an optional sign, then 0 or digits that do not start with 0
ParseNumber(text, i) ==
    LET d == IF text[i] = "-" THEN i + 1 ELSE i
        e == IF d <= Len(text) /\ text[d] = "0" THEN d + 1 ELSE EndOfDigits(text, d)
    IN  IF e = d THEN NoParse
        ELSE [ok |-> TRUE, v |-> PyInt(SubSeq(text, i, e - 1)), i |-> e]

\* the literal word at i
ParseLiteral(text, i, word, value) ==
    IF startswith(SubSeq(text, i, Len(text)), word)
    THEN [ok |-> TRUE, v |-> value, i |-> i + Len(word)]
    ELSE NoParse

RECURSIVE ParseValue(_, _), ParseElements(_, _, _), ParseMembers(_, _, _)

\* the JSON value at i (whitespace before it skipped)
ParseValue(text, i) ==
    LET j == SkipWs(text, i)
    IN  IF j > Len(text) THEN NoParse
        ELSE CASE text[j] = "{" ->
                    LET k == SkipWs(text, j + 1)
                    IN  IF k <= Len(text) /\ text[k] = "}"
                        THEN [ok |-> TRUE, v |-> PyDict(<<>>), i |-> k + 1]
                        ELSE ParseMembers(text, k, <<>>)
               [] text[j] = "[" ->
                    LET k == SkipWs(text, j + 1)
                    IN  IF k <= Len(text) /\ text[k] = "]"
                        THEN [ok |-> TRUE, v |-> PyList(<<>>), i |-> k + 1]
                        ELSE ParseElements(text, k, <<>>)
               [] text[j] = "\"" -> ParseString(text, j)
               [] text[j] \in Digits \cup {"-"} -> ParseNumber(text, j)
               [] text[j] = "n" ->
                    ParseLiteral(text, j, <<"n","u","l","l">>, PyNone)
               [] text[j] = "t" ->
                    ParseLiteral(text, j, <<"t","r","u","e">>, PyBool(TRUE))
               [] text[j] = "f" ->
                    ParseLiteral(text, j, <<"f","a","l","s","e">>, PyBool(FALSE))
               [] OTHER -> NoParse

\* the elements of an array from i on, after those of acc, to the closing ]
ParseElements(text, i, acc) ==
    LET e == ParseValue(text, i)
        j == SkipWs(text, e.i)
    IN  IF ~e.ok \/ j > Len(text) THEN NoParse
        ELSE IF text[j] = "]"
        THEN [ok |-> TRUE, v |-> PyList(Append(acc, e.v)), i |-> j + 1]
        ELSE IF text[j] = ","
        THEN ParseElements(text, j + 1, Append(acc, e.v))
        ELSE NoParse

\* the members of an object from i on, after those of acc, to the closing }
ParseMembers(text, i, acc) ==
    LET k == IF i <= Len(text) /\ text[i] = "\"" THEN ParseString(text, i) ELSE NoParse
        c == SkipWs(text, k.i)
        e == ParseValue(text, c + 1)
        j == SkipWs(text, e.i)
    IN  IF ~k.ok \/ c > Len(text) \/ text[c] # ":" THEN NoParse
        ELSE IF ~e.ok \/ j > Len(text) THEN NoParse
        ELSE IF text[j] = "}"
        THEN [ok |-> TRUE, v |-> PyDict(Append(acc, [k |-> k.v.s, v |-> e.v])), i |-> j + 1]
        ELSE IF text[j] = ","
        THEN ParseMembers(text, SkipWs(text, j + 1), Append(acc, [k |-> k.v.s, v |-> e.v]))
        ELSE NoParse

\* json.loads(text): [ok, v]; ok is FALSE where json.loads raises
\* JSONDecodeError (no value, or text after the value)
json_loads(text) ==
    LET r == ParseValue(text, 1)
    IN  IF r.ok /\ SkipWs(text, r.i) > Len(text)
        THEN [ok |-> TRUE, v |-> r.v]
        ELSE [ok |-> FALSE, v |-> PyNone]

RECURSIVE DumpsRaises(_)
\* whether json.dumps(x, default=str) raises: str() of some value inside raises
DumpsRaises(x) ==
    \/ x.t = "badstr"
    \/ \E i \in 1..Len(x.items) : DumpsRaises(x.items[i].v)

RECURSIVE Dumps(_), DumpsItems(_, _, _)
\* json.dumps(x, default=str) of a value that does not raise
Dumps(x) ==
    CASE x.t = "None" -> <<"n","u","l","l">>
      [] x.t = "bool" -> lower(x.s)
      [] x.t = "int" -> x.s
      [] x.t = "str" -> <<"\"">> \o x.s \o <<"\"">>
      [] x.t = "list" -> <<"[">> \o DumpsItems(x.items, 1, FALSE) \o <<"]">>
      [] x.t = "dict" -> <<"{">> \o DumpsItems(x.items, 1, TRUE) \o <<"}">>
      [] OTHER -> <<"\"">> \o x.s \o <<"\"">>

\* the items from the i-th on, ", " between them, a dict's as "key": value
DumpsItems(items, i, keyed) ==
    IF i > Len(items) THEN <<>>
    ELSE (IF i > 1 THEN <<",", " ">> ELSE <<>>)
         \o (IF keyed THEN <<"\"">> \o items[i].k \o <<"\"", ":", " ">> ELSE <<>>)
         \o Dumps(items[i].v)
         \o DumpsItems(items, i + 1, keyed)

----------------------------------------------------------------------------
(* The client object *)

\* The attributes a client object may have, in the order dir() lists them
\* (sorted by name). callable: whether callable() holds of the attribute;
\* doc: its __doc__; effect: what calling it does.
ClientAttrs ==
    << [name |-> <<"G","e","t">>, callable |-> TRUE,
        doc |-> PyStr(<<"d","o","c">>), effect |-> "echo"],
       [name |-> <<"_","g","e","t">>, callable |-> TRUE,
        doc |-> PyStr(<<"d","o","c">>), effect |-> "echo"],
       [name |-> <<"c","r","e","a","t","e">>, callable |-> TRUE,
        doc |-> PyStr(<<>>), effect |-> "AttributeError"],
       [name |-> <<"g","e","t","p","u","t">>, callable |-> TRUE,
        doc |-> PyStr(<<"d","o","c">>), effect |-> "object"],
       [name |-> <<"l","i","s","t">>, callable |-> FALSE,
        doc |-> PyStr(<<"d","o","c">>), effect |-> "echo"],
       [name |-> <<"p","u","t">>, callable |-> TRUE,
        doc |-> PyNone, effect |-> "echo"],
       [name |-> <<"r","e","m","o","v","e">>, callable |-> TRUE,
        doc |-> PyStr(<<"d","o","c">>), effect |-> "RuntimeError"],
       [name |-> <<"r","u","n">>, callable |-> TRUE,
        doc |-> PyStr(<<"d","o","c">>), effect |-> "badstr"] >>

AttrIds == 1..Len(ClientAttrs)

RECURSIVE Ascending(_)
\* the numbers of a set in ascending order
Ascending(ids) ==
    IF ids = {} THEN <<>>
    ELSE LET m == CHOOSE x \in ids : \A y \in ids : x <= y
         IN  <<m>> \o Ascending(ids \ {m})

\* dir(obj): the names of the attributes of the object, sorted
dir(obj) == [i \in 1..Cardinality(obj) |-> ClientAttrs[Ascending(obj)[i]].name]

\* whether getattr(obj, name) finds an attribute (else it raises AttributeError)
hasattr(obj, name) == \E a \in obj : ClientAttrs[a].name = name

\* getattr(obj, name) of an attribute that is there
getattr(obj, name) == ClientAttrs[CHOOSE a \in obj : ClientAttrs[a].name = name]

\* func(**params) for a mapping params: [raised, exc, v]
Call(func, params) ==
    CASE func.effect = "echo" -> [raised |-> FALSE, exc |-> "", v |-> params]
      [] func.effect = "object" ->
            [raised |-> FALSE, exc |-> "", v |-> PyObject(<<"<","W",">">>)]
      [] func.effect = "badstr" -> [raised |-> FALSE, exc |-> "", v |-> PyBadStr]
      [] OTHER -> [raised |-> TRUE, exc |-> func.effect, v |-> PyNone]

----------------------------------------------------------------------------
(* AnySDKTool *)

\* whether AnySDKTool(client=..., name=..., description=...) is accepted: name
\* and description are declared str
ToolValid(name, description) == description.t = "str"

\* the tool AnySDKTool(client=self.client, name=..., description=...); every
\* tool refers to the one client object
AnySDKTool(name, description) == [name |-> name, description |-> description.s]

\* keyword arguments taken from whatever json.loads gave, with no fallback
ParamsOfNoFallback(tool_input, loaded) ==
    IF tool_input.t = "dict" THEN tool_input
    ELSE IF tool_input.t = "str" THEN loaded.v
    ELSE PyDict(<<>>)

\* the keyword arguments _run takes from its input, given what json.loads
\* makes of it when it is a string
ParamsOf(tool_input, loaded) ==
    IF tool_input.t = "dict" THEN tool_input
    ELSE IF tool_input.t = "str"
    THEN (IF loaded.ok THEN loaded.v ELSE PyDict(<<>>))
    ELSE PyDict(<<>>)

\* the keyword arguments _run takes from its input
Params(tool_input) ==
    ParamsOf(tool_input,
             IF tool_input.t = "str" THEN json_loads(tool_input.s) ELSE NoParse)

\* what a call of _run gives: a returned string, or a raised exception
Returns(text) == [raised |-> FALSE, exc |-> "", text |-> text]
Raises(exc) == [raised |-> TRUE, exc |-> exc, text |-> <<>>]

InvalidFunctionName(name) ==
    <<"I","n","v","a","l","i","d"," ","f","u","n","c","t","i","o","n"," ",
      "n","a","m","e",":"," ">> \o name

\* return json.dumps(result, default=str), after the call gave result
Serialized(called, result) ==
    IF result.raised THEN [calls |-> called, out |-> Raises(result.exc)]
    ELSE IF DumpsRaises(result.v)
    THEN [calls |-> called, out |-> Raises("AttributeError")]
    ELSE [calls |-> called, out |-> Returns(Dumps(result.v))]

\* func = getattr(...); result = func(**params); return json.dumps(...):
\* [calls, out], calls the client methods called with their keyword
\* arguments, out what the try block returns or raises
Invoked(obj, name, params) ==
    IF ~hasattr(obj, name)
    THEN [calls |-> <<>>, out |-> Raises("AttributeError")]
    ELSE IF params.t # "dict" \/ ~getattr(obj, name).callable
    THEN [calls |-> <<>>, out |-> Raises("TypeError")]
    ELSE Serialized(<<[name |-> name, params |-> params]>>,
                    Call(getattr(obj, name), params))

\* the body of the try block of _run
TryRun(obj, name, tool_input) == Invoked(obj, name, Params(tool_input))

\* a handler that catches nothing
ExceptNothing(name, r) == r

\* except AttributeError: return f"Invalid function name: {self.name}"
ExceptAttributeError(name, r) ==
    IF r.out.raised /\ r.out.exc = "AttributeError"
    THEN [calls |-> r.calls, out |-> Returns(InvalidFunctionName(name))]
    ELSE r

\* AnySDKTool._run: the try block, with AttributeError caught
_run(obj, name, tool_input) ==
    ExceptAttributeError(name, TryRun(obj, name, tool_input))

----------------------------------------------------------------------------
(* AnySdkWrapper *)

\* the public callables of the client, in dir() order
sdk_functions(obj) ==
    SelectSeq(dir(obj),
              LAMBDA func : getattr(obj, func).callable /\ ~startswith(func, <<"_">>))

\* any(word.lower() in func_name.lower() for word in word_list)
AnyWordIn(word_list, func_name) ==
    \E i \in 1..Len(word_list.items) :
        in(lower(word_list.items[i].v.s), lower(func_name))

\* a pass that does not look at the gate of its category
AppendIfAnyGate(ops, operation, enabled, word_list, func_name) ==
    IF word_list.t # "None" /\ AnyWordIn(word_list, func_name)
    THEN Append(ops, operation)
    ELSE ops

\* one pass of a category: the operation appended when the category is enabled,
\* its list is not None and a word of it is in the name
AppendIf(ops, operation, enabled, word_list, func_name) ==
    IF bool(enabled) /\ word_list.t # "None" /\ AnyWordIn(word_list, func_name)
    THEN Append(ops, operation)
    ELSE ops

\* category passes that stop at the first category that takes the name
ClassifiedOnce(ops, operation, cc, func_name) ==
    IF cc = PyNone THEN ops
    ELSE IF \E c \in {<<cc.create, cc.create_list>>, <<cc.read, cc.read_list>>,
                       <<cc.update, cc.update_list>>, <<cc.delete, cc.delete_list>>} :
               bool(c[1]) /\ AnyWordIn(c[2], func_name)
    THEN Append(ops, operation)
    ELSE ops

\* the four category passes of one function name
Classified(ops, operation, cc, func_name) ==
    IF cc = PyNone THEN ops
    ELSE LET c == AppendIf(ops, operation, cc.create, cc.create_list, func_name)
             r == AppendIf(c, operation, cc.read, cc.read_list, func_name)
             u == AppendIf(r, operation, cc.update, cc.update_list, func_name)
         IN  AppendIf(u, operation, cc.delete, cc.delete_list, func_name)

RECURSIVE BuildFrom(_, _, _, _, _)
\* the loop of _build_operations from the i-th function name on
BuildFrom(obj, cc, names, i, ops) ==
    IF i > Len(names) THEN [raised |-> FALSE, ops |-> ops]
    ELSE LET func == getattr(obj, names[i])
         IN  IF ~ToolValid(names[i], func.doc)
             THEN [raised |-> TRUE, ops |-> <<>>]
             ELSE BuildFrom(obj, cc, names, i + 1,
                            Classified(ops, AnySDKTool(names[i], func.doc), cc, names[i]))

\* AnySdkWrapper._build_operations: [raised, ops]
_build_operations(obj, cc) == BuildFrom(obj, cc, sdk_functions(obj), 1, <<>>)

\* a get_tools that builds the list again from the client as it is
get_tools_rebuilt(ops, obj, cc) == _build_operations(obj, cc).ops

\* AnySdkWrapper.get_tools
get_tools(ops, obj, cc) == ops

----------------------------------------------------------------------------
(* Bounds and inputs *)

\* at most this many fields given to CrudControls(...)
MaxGiven == 2
\* at most this many of the environment variables set
MaxEnvSet == 1
\* at most this many attributes on the client object when the catalog is built
MaxAttrs == 2
\* at most this many attributes added to or removed from the client after __init__
MaxChanges == 1

\* the values a caller gives a field: None, False, True, "", "no", "Get,t,"
\* and a list
GivenValues ==
    {PyNone, PyBool(FALSE), PyBool(TRUE), PyStr(<<>>), PyStr(<<"n","o">>),
     PyStr(<<"G","e","t",",","t",",">>), PyList(<<PyStr(<<"g","e","t">>)>>)}

\* the values an environment variable is set to: "" and "1,u"
EnvValues == {<<>>, <<"1",",","u">>}

Unset == [set |-> FALSE, v |-> <<>>]

NoEnv == [k \in EnvKeys |-> Unset]

\* the policies the catalog is built with: CrudControls() and CrudControls
\* with create=True, update=True, delete=True; read_list="GET";
\* update=True, update_list="t,"; create="yes", read_list="zz"
CatalogConfigs ==
    {<<>>,
     [create |-> PyBool(TRUE), update |-> PyBool(TRUE), delete |-> PyBool(TRUE)],
     [read_list |-> PyStr(<<"G","E","T">>)],
     [update |-> PyBool(TRUE), update_list |-> PyStr(<<"t",",">>)],
     [create |-> PyStr(<<"y","e","s">>), read_list |-> PyStr(<<"z","z">>)]}

\* the inputs of _run: None, {"id": 5}, '{"id": 5}', 'not valid json', '5',
\* 'null' and 5
ToolInputs ==
    {PyNone,
     PyDict(<<[k |-> <<"i","d">>, v |-> PyInt(<<"5">>)]>>),
     PyStr(<<"{","\"","i","d","\"",":"," ","5","}">>),
     PyStr(<<"n","o","t"," ","v","a","l","i","d"," ","j","s","o","n">>),
     PyStr(<<"5">>),
     PyStr(<<"n","u","l","l">>),
     PyInt(<<"5">>)}

NotCalled == [called |-> FALSE, ops |-> <<>>]
NoRun == [ran |-> FALSE, name |-> <<>>, tool_input |-> PyNone, resolved |-> FALSE,
          calls |-> <<>>, out |-> Returns(<<>>)]

----------------------------------------------------------------------------
(* The catalog: AnySdkWrapper built over a client and used *)

Init ==
    /\ env = NoEnv
    /\ \/ config = <<>> /\ crud_controls = PyNone
       \/ \E cfg \in CatalogConfigs :
            config = cfg /\ crud_controls = CrudControls(NoEnv, cfg)
    /\ client \in {c \in SUBSET AttrIds : Cardinality(c) <= MaxAttrs}
    /\ pc = "new"
    /\ operations = <<>>
    /\ built = <<>>
    /\ tools = NotCalled
    /\ run = NoRun
    /\ changes = 0

\* AnySdkWrapper.__init__: operations are built once; a tool that cannot be
\* constructed makes the constructor raise
AnySdkWrapperInit ==
    /\ pc = "new"
    /\ LET b == _build_operations(client, crud_controls)
       IN  IF b.raised
           THEN /\ pc' = "raised"
                /\ UNCHANGED <<operations, built>>
           ELSE /\ pc' = "built"
                /\ operations' = b.ops
                /\ built' = b.ops
    /\ UNCHANGED <<env, config, crud_controls, client, tools, run, changes>>

\* AnySdkWrapper.get_tools
GetTools ==
    /\ pc = "built"
    /\ tools' = [called |-> TRUE, ops |-> get_tools(operations, client, crud_controls)]
    /\ UNCHANGED <<env, config, crud_controls, client, pc, operations, built, run, changes>>

\* the record of a call of a tool: what was asked, whether the name resolved on
\* the client, the client methods called and the outcome
RunRecord(name, tool_input, resolved, r) ==
    [ran |-> TRUE, name |-> name, tool_input |-> tool_input,
     resolved |-> resolved, calls |-> r.calls, out |-> r.out]

\* AnySDKTool._run of a tool of the catalog (_arun makes the same call of _run)
Run ==
    /\ pc = "built"
    /\ \E i \in DOMAIN operations, tool_input \in ToolInputs :
         run' = RunRecord(operations[i].name, tool_input,
                          hasattr(client, operations[i].name),
                          _run(client, operations[i].name, tool_input))
    /\ UNCHANGED <<env, config, crud_controls, client, pc, operations, built, tools, changes>>

\* the owner of the client object gives it an attribute
AddAttribute ==
    /\ pc = "built"
    /\ changes < MaxChanges
    /\ \E a \in AttrIds \ client : client' = client \cup {a}
    /\ changes' = changes + 1
    /\ UNCHANGED <<env, config, crud_controls, pc, operations, built, tools, run>>

\* the owner of the client object removes an attribute
RemoveAttribute ==
    /\ pc = "built"
    /\ changes < MaxChanges
    /\ \E a \in client : client' = client \ {a}
    /\ changes' = changes + 1
    /\ UNCHANGED <<env, config, crud_controls, pc, operations, built, tools, run>>

Next ==
    \/ AnySdkWrapperInit
    \/ GetTools
    \/ Run
    \/ AddAttribute
    \/ RemoveAttribute

Spec == Init /\ [][Next]_vars

----------------------------------------------------------------------------
(* The policy: CrudControls constructed from a configuration and the environment *)

\* the functions from at most n elements of keys to values
Partial(keys, values, n) ==
    UNION {[d -> values] : d \in {x \in SUBSET keys : Cardinality(x) <= n}}

InitPolicy ==
    /\ \E e \in Partial(EnvKeys, EnvValues, MaxEnvSet) :
         env = [k \in EnvKeys |->
                   IF k \in DOMAIN e THEN [set |-> TRUE, v |-> e[k]] ELSE Unset]
    /\ config \in Partial(Fields, GivenValues, MaxGiven)
    /\ crud_controls = PyNone
    /\ client = {}
    /\ pc = "config"
    /\ operations = <<>>
    /\ built = <<>>
    /\ tools = NotCalled
    /\ run = NoRun
    /\ changes = 0

\* CrudControls(**config)
CrudControlsInit ==
    /\ pc = "config"
    /\ crud_controls' = CrudControls(env, config)
    /\ pc' = IF CrudControls(env, config) = ValidationError THEN "invalid" ELSE "policy"
    /\ UNCHANGED <<env, config, client, operations, built, tools, run, changes>>

NextPolicy == CrudControlsInit

SpecPolicy == InitPolicy /\ [][NextPolicy]_vars

----------------------------------------------------------------------------
(* What the properties are stated with *)

Categories == {"create", "read", "update", "delete"}

\* the gate and the keyword list of a category in a policy
GateOf(cc, c) ==
    CASE c = "create" -> cc.create [] c = "read" -> cc.read
      [] c = "update" -> cc.update [] c = "delete" -> cc.delete

KeywordsOf(cc, c) ==
    CASE c = "create" -> cc.create_list [] c = "read" -> cc.read_list
      [] c = "update" -> cc.update_list [] c = "delete" -> cc.delete_list

\* word is a substring of text, letter case ignored
SubstringIgnoringCase(word, text) ==
    \E lo \in 1..(Len(text) + 1) :
        /\ lo + Len(word) - 1 <= Len(text)
        /\ \A k \in 1..Len(word) : LowerChar(word[k]) = LowerChar(text[lo + k - 1])

\* the name qualifies under the category: a policy is present, the category
\* is enabled and a keyword of its list is in the name
Qualifies(n, c) ==
    /\ crud_controls # PyNone
    /\ GateOf(crud_controls, c) = PyBool(TRUE)
    /\ \E i \in 1..Len(KeywordsOf(crud_controls, c).items) :
          SubstringIgnoringCase(KeywordsOf(crud_controls, c).items[i].v.s, n)

\* a callable attribute whose name does not begin with an underscore
Public(a) == ClientAttrs[a].callable /\ ClientAttrs[a].name[1] # "_"

\* the positions of the operations list that hold the name
EntriesOf(n) == {i \in DOMAIN operations : operations[i].name = n}

\* the place of a name in the attribute enumeration of the client
PlaceOf(n) == CHOOSE a \in AttrIds : ClientAttrs[a].name = n

\* the catalog as __init__ left it, the client untouched since
JustBuilt == pc = "built" /\ changes = 0

\* C1: after the catalog is built, an attribute name of the client is in the
\* operations list if and only if it is callable, does not begin with an
\* underscore, a policy is present and the name qualifies under an enabled
\* category; the list holds no other name.
C1_ListedIffQualifies ==
    JustBuilt =>
        /\ \A a \in client :
              (EntriesOf(ClientAttrs[a].name) # {})
                <=> (Public(a) /\ \E c \in Categories : Qualifies(ClientAttrs[a].name, c))
        /\ \A i \in DOMAIN operations : hasattr(client, operations[i].name)

\* a catalog holding one method and leaving out a public method whose name
\* holds a keyword of a category that is disabled
C1_Witness ==
    /\ JustBuilt
    /\ operations # <<>>
    /\ \E a \in client :
          /\ Public(a)
          /\ EntriesOf(ClientAttrs[a].name) = {}
          /\ \E c \in Categories :
                /\ GateOf(crud_controls, c) = PyBool(FALSE)
                /\ \E i \in 1..Len(KeywordsOf(crud_controls, c).items) :
                      SubstringIgnoringCase(KeywordsOf(crud_controls, c).items[i].v.s,
                                            ClientAttrs[a].name)

\* C8: the operations list holds a public callable name once per enabled
\* category under which it qualifies, and the names follow the enumeration
\* order of the client (so the entries of one name are adjacent).
C8_OncePerCategory ==
    JustBuilt =>
        /\ \A a \in client :
              Public(a) =>
                Cardinality(EntriesOf(ClientAttrs[a].name))
                  = Cardinality({c \in Categories : Qualifies(ClientAttrs[a].name, c)})
        /\ \A i, j \in DOMAIN operations :
              i < j => PlaceOf(operations[i].name) <= PlaceOf(operations[j].name)

\* a catalog with a name listed twice, after another name
C8_Witness ==
    /\ JustBuilt
    /\ \E i \in DOMAIN operations :
          /\ i + 2 \in DOMAIN operations
          /\ operations[i].name # operations[i + 1].name
          /\ operations[i + 1].name = operations[i + 2].name

\* C9: the operations list is the one __init__ built, and get_tools returns
\* it, whatever was added to or removed from the client and whatever was
\* called since.
C9_Snapshot ==
    pc = "built" => /\ operations = built
                    /\ tools.called => tools.ops = built

\* get_tools called after a tool ran and the client changed so that building
\* again would give another list
C9_Witness ==
    /\ pc = "built"
    /\ changes > 0
    /\ run.ran
    /\ tools.called
    /\ built # <<>>
    /\ ~_build_operations(client, crud_controls).raised
    /\ _build_operations(client, crud_controls).ops # built


----------------------------------------------------------------------------
(* Properties of AnySDKTool._run *)

\* the text "Invalid function name: " followed by the name
InvalidNameText(n) ==
    <<"I","n","v","a","l","i","d"," ","f","u","n","c","t","i","o","n"," ",
      "n","a","m","e",":"," ">> \o n

EmptyArguments == [t |-> "dict", s |-> <<>>, items |-> <<>>]

\* what the method of the name does when called with the keyword arguments
MethodGives(n, params) == Call(ClientAttrs[PlaceOf(n)], params)

\* C2: a tool whose name does not resolve on the client when it is called
\* returns "Invalid function name: <name>" for every input, raises nothing
\* and calls no method of the client.
C2_UnresolvedNameReported ==
    (run.ran /\ ~run.resolved) =>
        /\ ~run.out.raised
        /\ run.out.text = InvalidNameText(run.name)
        /\ run.calls = <<>>

\* a tool called with a string after its method was removed from the client
C2_Witness ==
    /\ run.ran
    /\ ~run.resolved
    /\ run.tool_input.t = "str"
    /\ changes > 0

\* C3: when the name resolves and the method raises, _run raises the same
\* exception; "Invalid function name" is returned only when the name does not
\* resolve, never for an exception raised by the method or by the
\* serialization of its result.
C3_MethodExceptionsPropagate ==
    (run.ran /\ run.resolved) =>
        /\ \A k \in DOMAIN run.calls :
              MethodGives(run.calls[k].name, run.calls[k].params).raised
                => /\ run.out.raised
                   /\ run.out.exc = MethodGives(run.calls[k].name, run.calls[k].params).exc
        /\ ~(~run.out.raised /\ run.out.text = InvalidNameText(run.name))

\* C4: a string input that is not JSON makes _run call the method once with no
\* keyword arguments; the outcome is that of an absent input, and it is the
\* serialization of the result when the method returns one.
C4_UnparsableInputIsEmpty ==
    (run.ran /\ run.resolved /\ run.tool_input.t = "str"
             /\ ~json_loads(run.tool_input.s).ok) =>
        /\ run.calls = <<[name |-> run.name, params |-> EmptyArguments]>>
        /\ run.out = _run({PlaceOf(run.name)}, run.name, PyNone).out
        /\ (/\ ~MethodGives(run.name, EmptyArguments).raised
            /\ ~DumpsRaises(MethodGives(run.name, EmptyArguments).v))
              => /\ ~run.out.raised
                 /\ run.out.text = Dumps(MethodGives(run.name, EmptyArguments).v)

\* 'not valid json' given to a method that returns its keyword arguments: "{}"
C4_Witness ==
    /\ run.ran
    /\ run.resolved
    /\ run.tool_input = PyStr(<<"n","o","t"," ","v","a","l","i","d"," ","j","s","o","n">>)
    /\ run.calls # <<>>
    /\ ~run.out.raised
    /\ run.out.text = <<"{", "}">>

\* the keyword arguments the input stands for: the mapping itself, the object
\* a string parses to, and no argument for everything else
ArgumentsOf(tool_input) ==
    IF tool_input.t = "dict" THEN tool_input
    ELSE IF /\ tool_input.t = "str"
            /\ json_loads(tool_input.s).ok
            /\ json_loads(tool_input.s).v.t = "dict"
    THEN json_loads(tool_input.s).v
    ELSE EmptyArguments

\* C10: every input resolves to a mapping of keyword arguments (a string that
\* is JSON but not an object gives none), so a resolvable tool whose method
\* does not raise is called with them and _run returns a string.
C10_EveryInputGivesArguments ==
    (/\ run.ran
     /\ run.resolved
     /\ ~MethodGives(run.name, ArgumentsOf(run.tool_input)).raised
     /\ ~DumpsRaises(MethodGives(run.name, ArgumentsOf(run.tool_input)).v)) =>
        /\ run.calls = <<[name |-> run.name, params |-> ArgumentsOf(run.tool_input)]>>
        /\ ~run.out.raised

\* C6: the constructor of the catalog raises for no client and no policy.
C6_ConstructionNeverRaises == pc # "raised"

----------------------------------------------------------------------------
(* Properties of CrudControls *)

\* a field the configuration supplies
Supplied(f) == f \in DOMAIN config /\ config[f] # PyNone

\* an environment variable that is set
EnvSet(f) == env[EnvKey(f)].set /\ env[EnvKey(f)].v # <<>>

\* the value of a gate by the precedence: configuration, environment, default
Resolved(g) ==
    IF Supplied(g) THEN config[g]
    ELSE IF EnvSet(g) THEN PyStr(env[EnvKey(g)].v)
    ELSE FieldDefault(g)

\* C5: each gate of the policy is the truth value of the value supplied in the
\* configuration, else of the environment variable, else of the default; so
\* a gate supplied as False is disabled.
C5_GatePrecedence ==
    pc = "policy" =>
        \A g \in Gates : GateOf(crud_controls, g) = PyBool(bool(Resolved(g)))

\* the configuration field of the keyword list of a category
ListFieldOf(c) ==
    CASE c = "create" -> "create_list" [] c = "read" -> "read_list"
      [] c = "update" -> "update_list" [] c = "delete" -> "delete_list"

\* C7: each keyword list of the policy is a sequence of strings, and a list
\* overridden with the empty string is the empty sequence.
C7_EmptyOverrideIsEmpty ==
    pc = "policy" =>
        \A c \in Categories :
            /\ KeywordsOf(crud_controls, c).t = "list"
            /\ \A i \in 1..Len(KeywordsOf(crud_controls, c).items) :
                  KeywordsOf(crud_controls, c).items[i].v.t = "str"
            /\ (/\ ListFieldOf(c) \in DOMAIN config
                /\ config[ListFieldOf(c)] = PyStr(<<>>))
                  => KeywordsOf(crud_controls, c).items = <<>>

=============================================================================
